---- MODULE Spec2Model ----
(***************************************************************************)
(* Model of the UDP reverse-NAT forwarder of ipsec/forward.go: the session *)
(* table (Forwarder.clients), the per-packet handler goroutines            *)
(* (Forwarder.handle), the janitor, the ingress loop (Forwarder.run) and   *)
(* Close.  Every goroutine is a process whose position is a pc variable.   *)
(* One action is one step on shared memory; a step that touches only local *)
(* data, a hook or a socket write (whose result is only logged) is merged  *)
(* into a neighbouring shared step of the same goroutine.                  *)
(*                                                                         *)
(* A connection object is created by exactly one handler, so a connection  *)
(* is named by the handler that created it: connection s is the object     *)
(* built at forward.go:112 by handler s.  None names "no connection".      *)
(*                                                                         *)
(* Time is relative: age[s] is now - lastActive of connection s, which     *)
(* saturates one above the timeout (exact for every comparison the code    *)
(* makes).  Time passes by clock ticks and by the janitor's sleep, which   *)
(* lasts the timeout; a longer sleep is a sleep followed by ticks.         *)
(*                                                                         *)
(* A method call on a nil *net.UDPConn dereferences a nil pointer: the     *)
(* goroutine panics and the process ends (panicked).                       *)
(***************************************************************************)
EXTENDS Integers, Sequences, FiniteSets, TLC

\* Most handler goroutines (datagrams read by the ingress loop) in a run.
MaxHandlers == 3

\* Forwarder.timeout, in clock ticks.
Timeout == 4

\* Client addresses (addr.String()).  They are interchangeable, so the first
\* datagram read is taken to come from FirstAddr.
Addrs == {"a", "b"}
FirstAddr == "a"

H == 1..MaxHandlers
None == 0
MaxAge == Timeout + 1

VARIABLES
    clients,       \* Forwarder.clients: address -> connection (None: no entry)
    available,     \* connection.available is closed (the gate is open)
    rConn,         \* connection.rConn: "nil", "open" or "closed"
    age,           \* now - connection.lastActive
    pc,            \* position of each handler goroutine
    haddr,         \* cliAddr of each handler
    client,        \* local variable client of each handler
    nextH,         \* number of handlers the ingress loop has started
    runpc,         \* position of Forwarder.run
    listener,      \* Forwarder.listenerConn: "open" or "closed"
    closed,        \* Forwarder.closed
    cpc,           \* position of the goroutine calling Close
    ctodo,         \* keys the Range of Close has still to visit
    jpc,           \* position of the janitor
    jtodo,         \* keys the Range of the janitor has still to visit
    keysToDelete,  \* local variable keysToDelete of the janitor
    ji,            \* index of the janitor in keysToDelete
    jval,          \* connection returned by LoadAndDelete
    panicked,      \* a goroutine panicked: the process is gone
    limit,         \* traffic the run may see (see PacketArrive); never changes
    wlog,          \* history: outcome of the latest WriteMsgUDP ("off": the
                   \* run keeps no log)
    disc,          \* history: disconnectCallback invocations, per connection
    orphan,        \* history: janitor disconnectCallback for keys it did not remove
    reaped,        \* history: the connection was removed by the janitor
    jev,           \* history: connection the janitor removed for each key
    jseen,         \* history: connection the janitor found idle for each key
    afterFail,     \* history: a failed creator of the address has returned
                   \* when every other handler started had done its Load
    nextAfterFail  \* history: the handler is the first started after that

vars == <<clients, available, rConn, age, pc, haddr, client, nextH, runpc,
          listener, closed, cpc, ctodo, jpc, jtodo,
          keysToDelete, ji, jval, panicked, limit, wlog, disc, orphan, reaped,
          jev,
          jseen, afterFail, nextAfterFail>>

hvars == <<pc, haddr, client>>
connvars == <<available, rConn, age>>
runvars == <<nextH, runpc>>
closevars == <<closed, cpc, ctodo, listener>>
jvars == <<jpc, jtodo, keysToDelete, ji, jval>>
histvars ==
    <<limit, wlog, disc, orphan, reaped, jev, jseen, afterFail, nextAfterFail>>

----------------------------------------------------------------------------
\* sync.Map and time helpers

\* The keys a Range over the map visits: those present when it starts.  The
\* callback gets the value the key has when it is visited, and a key deleted
\* by then is skipped.
Keys == {a \in Addrs : clients[a] # None}

\* time.Time.Before
Before(t, u) == t < u

\* The comparison of forward.go:90 with its operands exchanged.
IsIdleReversed(s) == Before(0 - Timeout, 0 - age[s])

\* forward.go:90, with now = 0 and lastActive = -age.
IsIdle(s) == Before(0 - age[s], 0 - Timeout)

\* forward.go:182, with now = 0 and lastActive = -age.
ShouldRefresh(s) == Before(0 - age[s], 0 + (Timeout \div 4))

\* lastActive of a connection that left the table is never read again
\* (forward.go:90 and forward.go:182 read it through the table only): its age
\* is kept at 0.
AgeWithout(a) ==
    IF clients[a] # None THEN [age EXCEPT ![clients[a]] = 0] ELSE age

\* The log after a WriteMsgUDP with outcome r.
Logged(r) == IF wlog = "off" THEN "off" ELSE r

\* The history variables a write leaves alone.
nowlog == <<limit, disc, orphan, reaped, jev, jseen, afterFail, nextAfterFail>>

\* Outcome of WriteMsgUDP on a socket: a closed socket always fails, an open
\* one succeeds or fails.  The outcome is only logged.
WriteOutcomes(c) == IF c = "open" THEN {"ok", "err"} ELSE {"err"}

\* The local variable loaded of handle, once Load has run.
Loaded(h) == client[h] # None /\ client[h] # h

\* The handler built a connection (forward.go:112).
Created(s) == pc[s] \notin {"idle", "load", "store"} /\ client[s] = s

\* The creator has invoked connectCallback (forward.go:141).
ConnectCalled(s) ==
    Created(s) /\ pc[s] \in {"relay", "rdel", "done"} /\ rConn[s] # "nil"

\* The creator has written the triggering datagram (forward.go:143).
SentFirst(s) == ConnectCalled(s)

\* A handler that found the entry has written its datagram (forward.go:174).
SentLater(h) == Loaded(h) /\ pc[h] \in {"refresh", "done"}

InitLog(n, w) ==
    /\ limit = n
    /\ wlog = w
    /\ clients = [a \in Addrs |-> None]
    /\ available = [s \in H |-> FALSE]
    /\ rConn = [s \in H |-> "nil"]
    /\ age = [s \in H |-> 0]
    /\ pc = [h \in H |-> "idle"]
    /\ haddr = [h \in H |-> "a"]
    /\ client = [h \in H |-> None]
    /\ nextH = 0
    /\ runpc = "reading"
    /\ listener = "open"
    /\ closed = FALSE
    /\ cpc = "idle"
    /\ ctodo = {}
    /\ jpc = "loop"
    /\ jtodo = {}
    /\ keysToDelete = <<>>
    /\ ji = 1
    /\ jval = None
    /\ panicked = FALSE
    /\ disc = [s \in H |-> 0]
    /\ orphan = [a \in Addrs |-> 0]
    /\ reaped = [s \in H |-> FALSE]
    /\ jev = [a \in Addrs |-> None]
    /\ jseen = [a \in Addrs |-> None]
    /\ afterFail = [a \in Addrs |-> FALSE]
    /\ nextAfterFail = [h \in H |-> FALSE]

InitWith(n) == InitLog(n, "off")

\* The traffic of a run is bounded by its size: the datagrams read plus the
\* client addresses they come from.  With MaxHandlers = 3 this is three
\* datagrams of one client, or two datagrams of two clients.
Init == InitWith(MaxHandlers + 1)

\* The client addresses of the datagrams read so far.
Senders == {haddr[h] : h \in 1..nextH}

----------------------------------------------------------------------------
\* Forwarder.run

\* PacketArrive with f.handle called in the ingress loop itself, without go, at
\* forward.go:79: run reads the next datagram after the handler's dial.
PacketArriveSerial(a) ==
    /\ ~panicked
    /\ runpc = "reading"
    /\ listener = "open"
    /\ \A h \in H : pc[h] # "dial"
    /\ nextH < MaxHandlers
    /\ nextH = 0 => a = FirstAddr
    /\ (nextH + 1) + Cardinality(Senders \cup {a}) <= limit
    /\ nextH' = nextH + 1
    /\ pc' = [pc EXCEPT ![nextH + 1] = "load"]
    /\ haddr' = [haddr EXCEPT ![nextH + 1] = a]
    /\ nextAfterFail' = [nextAfterFail EXCEPT ![nextH + 1] = afterFail[a]]
    /\ afterFail' = [afterFail EXCEPT ![a] = FALSE]
    /\ UNCHANGED <<clients, connvars, client, runpc, closevars, jvars, panicked,
                   limit, wlog,
                   disc, orphan, reaped, jev, jseen>>

\* forward.go:74-79: run reads a datagram from addr and starts
\* go f.handle(buf[:n], addr).
PacketArrive(a) ==
    /\ ~panicked
    /\ runpc = "reading"
    /\ listener = "open"
    /\ nextH < MaxHandlers
    /\ nextH = 0 => a = FirstAddr
    /\ (nextH + 1) + Cardinality(Senders \cup {a}) <= limit
    /\ nextH' = nextH + 1
    /\ pc' = [pc EXCEPT ![nextH + 1] = "load"]
    /\ haddr' = [haddr EXCEPT ![nextH + 1] = a]
    /\ nextAfterFail' = [nextAfterFail EXCEPT ![nextH + 1] = afterFail[a]]
    /\ afterFail' = [afterFail EXCEPT ![a] = FALSE]
    /\ UNCHANGED <<clients, connvars, client, runpc, closevars, jvars, panicked,
                   limit, wlog,
                   disc, orphan, reaped, jev, jseen>>

\* forward.go:74-78: ReadMsgUDP fails once Close has closed the listening
\* socket, and run returns.
IngressError ==
    /\ ~panicked
    /\ runpc = "reading"
    /\ listener = "closed"
    /\ runpc' = "terminated"
    /\ UNCHANGED <<clients, connvars, hvars, nextH, closevars, jvars, panicked,
                   histvars>>

----------------------------------------------------------------------------
\* Forwarder.handle

\* forward.go:110: value, loaded := f.clients.Load(cliAddr)
HLoad(h) ==
    /\ ~panicked
    /\ pc[h] = "load"
    /\ client' = [client EXCEPT ![h] = clients[haddr[h]]]
    /\ pc' = [pc EXCEPT ![h] = IF clients[haddr[h]] # None THEN "wait" ELSE "store"]
    /\ UNCHANGED <<clients, connvars, haddr, runvars, closevars, jvars, panicked,
                   histvars>>

\* forward.go:112-117: build the connection and f.clients.Store(cliAddr, value)
HStore(h) ==
    /\ ~panicked
    /\ pc[h] = "store"
    /\ available' = [available EXCEPT ![h] = FALSE]
    /\ rConn' = [rConn EXCEPT ![h] = "nil"]
    /\ age' = [AgeWithout(haddr[h]) EXCEPT ![h] = 0]
    /\ clients' = [clients EXCEPT ![haddr[h]] = h]
    /\ client' = [client EXCEPT ![h] = h]
    /\ pc' = [pc EXCEPT ![h] = "dial"]
    /\ UNCHANGED <<haddr, runvars, closevars, jvars, panicked, limit, wlog,
                   disc,
                   orphan,
                   reaped, jev, jseen, afterFail, nextAfterFail>>

\* Every other handler started for the address of h has done its Load
\* (forward.go:110), so the next Load of the address is a later packet's.
NoLoadPending(h) ==
    \A g \in H \ {h} : haddr[g] = haddr[h] => pc[g] \notin {"load"}

\* HDial with close(client.available) added to the error path of
\* forward.go:131-135.
HDialReleasing(h) ==
    /\ ~panicked
    /\ pc[h] = "dial"
    /\ \E ok \in BOOLEAN :
         IF ok
         THEN /\ rConn' = [rConn EXCEPT ![h] = "open"]
              /\ age' = IF clients[haddr[h]] = h THEN [age EXCEPT ![h] = 0] ELSE age
              /\ pc' = [pc EXCEPT ![h] = "gate"]
              /\ UNCHANGED <<clients, afterFail, available>>
         ELSE /\ clients' = [clients EXCEPT ![haddr[h]] = None]
              /\ age' = AgeWithout(haddr[h])
              /\ afterFail' = [afterFail EXCEPT ![haddr[h]] = NoLoadPending(h)]
              /\ pc' = [pc EXCEPT ![h] = "done"]
              /\ available' = [available EXCEPT ![h] = TRUE]
              /\ UNCHANGED rConn
    /\ UNCHANGED <<haddr, client, runvars, closevars, jvars, panicked,
                   limit, wlog,
                   disc, orphan, reaped, jev, jseen, nextAfterFail>>

\* forward.go:122-138: net.DialUDP (from a loopback local address when the
\* upstream is one); on an error f.clients.Delete(cliAddr) and return,
\* otherwise client.rConn = rconn and client.lastActive = time.Now()
HDial(h) ==
    /\ ~panicked
    /\ pc[h] = "dial"
    /\ \E ok \in BOOLEAN :
         IF ok
         THEN /\ rConn' = [rConn EXCEPT ![h] = "open"]
              /\ age' = IF clients[haddr[h]] = h THEN [age EXCEPT ![h] = 0] ELSE age
              /\ pc' = [pc EXCEPT ![h] = "gate"]
              /\ UNCHANGED <<clients, afterFail>>
         ELSE /\ clients' = [clients EXCEPT ![haddr[h]] = None]
              /\ age' = AgeWithout(haddr[h])
              /\ afterFail' = [afterFail EXCEPT ![haddr[h]] = NoLoadPending(h)]
              /\ pc' = [pc EXCEPT ![h] = "done"]
              /\ UNCHANGED rConn
    /\ UNCHANGED <<available, haddr, client, runvars, closevars, jvars, panicked,
                   limit, wlog,
                   disc, orphan, reaped, jev, jseen, nextAfterFail>>

\* forward.go:139: close(client.available)
HGate(h) ==
    /\ ~panicked
    /\ pc[h] = "gate"
    /\ available' = [available EXCEPT ![h] = TRUE]
    /\ pc' = [pc EXCEPT ![h] = "first"]
    /\ UNCHANGED <<clients, rConn, age, haddr, client, runvars, closevars, jvars,
                   panicked, histvars>>

\* HSendFirst with a failed write treated as the relay loop treats a failed
\* read: close the socket, delete the entry and return.
HSendFirstFatal(h) ==
    /\ ~panicked
    /\ pc[h] = "first"
    /\ \E r \in WriteOutcomes(rConn[h]) :
         /\ wlog' = Logged(r)
         /\ IF r = "ok"
            THEN /\ pc' = [pc EXCEPT ![h] = "relay"]
                 /\ UNCHANGED <<clients, rConn, age>>
            ELSE /\ pc' = [pc EXCEPT ![h] = "done"]
                 /\ rConn' = [rConn EXCEPT ![h] = "closed"]
                 /\ clients' = [clients EXCEPT ![haddr[h]] = None]
                 /\ age' = AgeWithout(haddr[h])
    /\ UNCHANGED <<available, haddr, client, runvars, closevars, jvars,
                   panicked, nowlog>>

\* forward.go:141-146: f.connectCallback(cliAddr) and
\* client.rConn.WriteMsgUDP(data, nil, nil) of the triggering datagram
HSendFirst(h) ==
    /\ ~panicked
    /\ pc[h] = "first"
    /\ \E r \in WriteOutcomes(rConn[h]) :
         /\ pc' = [pc EXCEPT ![h] = "relay"]
         /\ wlog' = Logged(r)
    /\ UNCHANGED <<clients, connvars, haddr, client, runvars, closevars, jvars,
                   panicked, nowlog>>

\* forward.go:152-165: ReadMsgUDP returns a reply, which is written to the
\* client through the listening socket (a failure there is only logged).
HRelayReply(h) ==
    /\ ~panicked
    /\ pc[h] = "relay"
    /\ rConn[h] = "open"
    /\ \E r \in WriteOutcomes(listener) : wlog' = Logged(r)
    /\ UNCHANGED <<clients, connvars, hvars, runvars, closevars, jvars,
                   panicked, nowlog>>

\* forward.go:152-154: ReadMsgUDP fails (always on a closed socket, possibly
\* on an open one) and the loop closes its socket.
HRelayError(h) ==
    /\ ~panicked
    /\ pc[h] = "relay"
    /\ rConn' = [rConn EXCEPT ![h] = "closed"]
    /\ pc' = [pc EXCEPT ![h] = "rdel"]
    /\ UNCHANGED <<clients, available, age, haddr, client, runvars, closevars,
                   jvars, panicked, histvars>>

\* HRelayCleanup with every entry of the table deleted at forward.go:155.
HRelayCleanupAll(h) ==
    /\ ~panicked
    /\ pc[h] = "rdel"
    /\ clients' = [a \in Addrs |-> None]
    /\ age' = [s \in H |-> 0]
    /\ disc' = [disc EXCEPT ![h] = @ + 1]
    /\ pc' = [pc EXCEPT ![h] = "done"]
    /\ UNCHANGED <<available, rConn, haddr, client, runvars, closevars, jvars,
                   panicked, limit, wlog, orphan, reaped, jev, jseen, afterFail,
                   nextAfterFail>>

\* forward.go:155-158: f.clients.Delete(cliAddr), f.disconnectCallback(cliAddr)
\* and return
HRelayCleanup(h) ==
    /\ ~panicked
    /\ pc[h] = "rdel"
    /\ clients' = [clients EXCEPT ![haddr[h]] = None]
    /\ age' = AgeWithout(haddr[h])
    /\ disc' = [disc EXCEPT ![h] = @ + 1]
    /\ pc' = [pc EXCEPT ![h] = "done"]
    /\ UNCHANGED <<available, rConn, haddr, client, runvars, closevars, jvars,
                   panicked, limit, wlog, orphan, reaped, jev, jseen, afterFail,
                   nextAfterFail>>

\* forward.go:171-177: <-client.available, then
\* client.rConn.WriteMsgUDP(data, nil, nil); a nil rConn is a nil pointer
\* dereference
HWaitSend(h) ==
    /\ ~panicked
    /\ pc[h] = "wait"
    /\ available[client[h]]
    /\ IF rConn[client[h]] = "nil"
       THEN /\ panicked' = TRUE
            /\ UNCHANGED <<pc, wlog>>
       ELSE /\ \E r \in WriteOutcomes(rConn[client[h]]) :
                  /\ pc' = [pc EXCEPT ![h] = "refresh"]
                  /\ wlog' = Logged(r)
            /\ UNCHANGED panicked
    /\ UNCHANGED <<clients, connvars, haddr, client, runvars, closevars, jvars,
                   nowlog>>

\* forward.go:179-185: Load the entry again and refresh its lastActive
HRefresh(h) ==
    /\ ~panicked
    /\ pc[h] = "refresh"
    /\ LET v == clients[haddr[h]] IN
         age' = IF v # None /\ ShouldRefresh(v) THEN [age EXCEPT ![v] = 0] ELSE age
    /\ pc' = [pc EXCEPT ![h] = "done"]
    /\ UNCHANGED <<clients, available, rConn, haddr, client, runvars, closevars,
                   jvars, panicked, histvars>>

Handle(h) ==
    \/ HLoad(h)
    \/ HStore(h)
    \/ HDial(h)
    \/ HGate(h)
    \/ HSendFirst(h)
    \/ HRelayReply(h)
    \/ HRelayError(h)
    \/ HRelayCleanup(h)
    \/ HWaitSend(h)
    \/ HRefresh(h)

----------------------------------------------------------------------------
\* Time

\* The ages after d more ticks.  lastActive is read only through the table
\* (forward.go:90 and forward.go:182), so only the connections in the table
\* age.
Elapsed(d) ==
    [s \in H |-> IF \E a \in Addrs : clients[a] = s
                 THEN (IF age[s] + d < MaxAge THEN age[s] + d ELSE MaxAge)
                 ELSE age[s]]

\* One clock tick.
Tick ==
    /\ ~panicked
    /\ age' = Elapsed(1)
    /\ UNCHANGED <<clients, available, rConn, hvars, runvars, closevars, jvars,
                   panicked, histvars>>

----------------------------------------------------------------------------
\* Forwarder.janitor

\* Position after the element at index i of keysToDelete has been handled in
\* the loop of forward.go:96-100.
AfterDelete(i) == IF i < Len(keysToDelete) THEN "del" ELSE "hooks"

\* forward.go:84-88: the loop condition !f.closed, time.Sleep(f.timeout), and
\* the Range starts
JSleep ==
    /\ ~panicked
    /\ jpc = "loop"
    /\ IF closed
       THEN /\ jpc' = "exit"
            /\ UNCHANGED <<age, jtodo>>
       ELSE /\ age' = Elapsed(Timeout)
            /\ jpc' = IF Keys = {} THEN "loop" ELSE "scan"
            /\ jtodo' = Keys
    /\ UNCHANGED <<clients, available, rConn, hvars, runvars, closevars,
                   keysToDelete, ji, jval, panicked, histvars>>

\* keysToDelete after the Range callback of forward.go:89-93 on key k
Collected(k) ==
    IF clients[k] # None /\ IsIdle(clients[k]) THEN Append(keysToDelete, k)
    ELSE keysToDelete

\* forward.go:88-96: the Range callback on one entry; after the last one the
\* Range returns
JScan(k) ==
    /\ ~panicked
    /\ jpc = "scan"
    /\ k \in jtodo
    /\ jtodo' = jtodo \ {k}
    /\ keysToDelete' = Collected(k)
    /\ jpc' = IF jtodo # {k} THEN "scan"
              ELSE IF Collected(k) = <<>> THEN "loop" ELSE "del"
    /\ ji' = 1
    /\ jseen' = IF Collected(k) # keysToDelete
                THEN [jseen EXCEPT ![k] = clients[k]] ELSE jseen
    /\ UNCHANGED <<clients, connvars, hvars, runvars, closevars, jval, panicked,
                   limit, wlog, disc, orphan, reaped, jev, afterFail,
                   nextAfterFail>>

\* JDelete with Load in the place of LoadAndDelete at forward.go:97.
JDeleteKeep ==
    /\ ~panicked
    /\ jpc = "del"
    /\ LET key == keysToDelete[ji] IN
         IF clients[key] # None
         THEN /\ jval' = clients[key]
              /\ UNCHANGED <<clients, age>>
              /\ reaped' = [reaped EXCEPT ![clients[key]] = TRUE]
              /\ jev' = [jev EXCEPT ![key] = clients[key]]
              /\ jpc' = "close"
              /\ UNCHANGED ji
         ELSE /\ jpc' = AfterDelete(ji)
              /\ ji' = IF ji < Len(keysToDelete) THEN ji + 1 ELSE 1
              /\ UNCHANGED <<jval, clients, age, reaped, jev>>
    /\ UNCHANGED <<available, rConn, hvars, runvars, closevars, jtodo,
                   keysToDelete, panicked, limit, wlog, disc, orphan, jseen,
                   afterFail, nextAfterFail>>

\* forward.go:97: f.clients.LoadAndDelete(key)
JDelete ==
    /\ ~panicked
    /\ jpc = "del"
    /\ LET key == keysToDelete[ji] IN
         IF clients[key] # None
         THEN /\ jval' = clients[key]
              /\ clients' = [clients EXCEPT ![key] = None]
              /\ age' = AgeWithout(key)
              /\ reaped' = [reaped EXCEPT ![clients[key]] = TRUE]
              /\ jev' = [jev EXCEPT ![key] = clients[key]]
              /\ jpc' = "close"
              /\ UNCHANGED ji
         ELSE /\ jpc' = AfterDelete(ji)
              /\ ji' = IF ji < Len(keysToDelete) THEN ji + 1 ELSE 1
              /\ UNCHANGED <<jval, clients, age, reaped, jev>>
    /\ UNCHANGED <<available, rConn, hvars, runvars, closevars, jtodo,
                   keysToDelete, panicked, limit, wlog, disc, orphan, jseen,
                   afterFail, nextAfterFail>>

\* forward.go:98: value.(*connection).rConn.Close(); a nil rConn is a nil
\* pointer dereference
JClose ==
    /\ ~panicked
    /\ jpc = "close"
    /\ IF rConn[jval] = "nil"
       THEN /\ panicked' = TRUE
            /\ UNCHANGED <<rConn, jpc, ji, jval>>
       ELSE /\ rConn' = [rConn EXCEPT ![jval] = "closed"]
            /\ jval' = None
            /\ jpc' = AfterDelete(ji)
            /\ ji' = IF ji < Len(keysToDelete) THEN ji + 1 ELSE 1
            /\ UNCHANGED panicked
    /\ UNCHANGED <<clients, available, age, hvars, runvars, closevars,
                   jtodo, keysToDelete, histvars>>

\* forward.go:102-104: f.disconnectCallback(key.(string)) for one key
JHook ==
    /\ ~panicked
    /\ jpc = "hooks"
    /\ LET key == keysToDelete[ji]
           last == ji >= Len(keysToDelete)
       IN
         /\ disc' = IF jev[key] # None THEN [disc EXCEPT ![jev[key]] = @ + 1]
                    ELSE disc
         /\ orphan' = IF jev[key] = None THEN [orphan EXCEPT ![key] = @ + 1]
                      ELSE orphan
         /\ jev' = [jev EXCEPT ![key] = None]
         /\ jpc' = IF last THEN "loop" ELSE "hooks"
         /\ ji' = IF last THEN 1 ELSE ji + 1
         /\ keysToDelete' = IF last THEN <<>> ELSE keysToDelete
         /\ jseen' = IF last THEN [a \in Addrs |-> None] ELSE jseen
    /\ UNCHANGED <<clients, connvars, hvars, runvars, closevars, jtodo, jval,
                   panicked, limit, wlog, reaped, afterFail, nextAfterFail>>

Janitor ==
    \/ JSleep
    \/ \E k \in Addrs : JScan(k)
    \/ JDelete
    \/ JClose
    \/ JHook

----------------------------------------------------------------------------
\* Forwarder.Close

\* forward.go:190-191: f.closed = true and the Range starts
CloseStart ==
    /\ ~panicked
    /\ cpc = "idle"
    /\ closed' = TRUE
    /\ cpc' = IF Keys = {} THEN "listener" ELSE "range"
    /\ ctodo' = Keys
    /\ UNCHANGED <<clients, connvars, hvars, runvars, listener, jvars, panicked,
                   histvars>>

\* forward.go:191-194: the Range callback on one entry; a nil rConn is a nil
\* pointer dereference
CloseConn(k) ==
    /\ ~panicked
    /\ cpc = "range"
    /\ k \in ctodo
    /\ IF clients[k] # None /\ rConn[clients[k]] = "nil"
       THEN /\ panicked' = TRUE
            /\ UNCHANGED <<rConn, ctodo, cpc>>
       ELSE /\ rConn' = IF clients[k] # None
                        THEN [rConn EXCEPT ![clients[k]] = "closed"] ELSE rConn
            /\ ctodo' = ctodo \ {k}
            /\ cpc' = IF ctodo = {k} THEN "listener" ELSE "range"
            /\ UNCHANGED panicked
    /\ UNCHANGED <<clients, available, age, hvars, runvars, closed, listener,
                   jvars, histvars>>

\* forward.go:195: f.listenerConn.Close()
CloseListener ==
    /\ ~panicked
    /\ cpc = "listener"
    /\ listener' = "closed"
    /\ cpc' = "done"
    /\ UNCHANGED <<clients, connvars, hvars, runvars, closed, ctodo, jvars,
                   panicked, histvars>>

Close ==
    \/ CloseStart
    \/ \E k \in Addrs : CloseConn(k)
    \/ CloseListener

----------------------------------------------------------------------------

Next ==
    \/ \E a \in Addrs : PacketArrive(a)
    \/ IngressError
    \/ \E h \in H : Handle(h)
    \/ Janitor
    \/ Close
    \/ Tick

Spec == Init /\ [][Next]_vars

\* Every goroutine that can take a step takes one: the Go scheduler starves no
\* runnable goroutine, DialUDP returns, and a read on a closed socket fails.
\* Nothing is assumed of the environment: no datagram has to arrive, no read
\* on an open socket has to fail, and nobody has to call Close.
Fairness ==
    /\ \A h \in H :
         /\ WF_vars(HLoad(h) \/ HStore(h) \/ HDial(h) \/ HGate(h) \/ HSendFirst(h))
         /\ WF_vars(rConn[h] = "closed" /\ HRelayError(h))
         /\ WF_vars(HRelayCleanup(h) \/ HWaitSend(h) \/ HRefresh(h))
    /\ WF_vars(Janitor)
    /\ WF_vars((\E k \in Addrs : CloseConn(k)) \/ CloseListener)
    /\ WF_vars(IngressError)

\* The forwarder under fair scheduling, with one datagram less of traffic.
FairSpec == InitWith(MaxHandlers) /\ [][Next]_vars /\ Fairness

\* The forwarder with the outcome of every write logged, on the same traffic
\* as FairSpec.
WriteSpec == InitLog(MaxHandlers, "none") /\ [][Next]_vars

----------------------------------------------------------------------------
\* Session Table: concurrent creation

\* C1: concurrent first packets of one address have exactly one creator: a
\* handler whose Load missed stores its connection into an empty slot, never
\* over the connection another creator has stored in the meantime.
C1_OneCreator ==
    [][\A h \in H : HStore(h) => clients[haddr[h]] = None]_vars

----------------------------------------------------------------------------
\* Readiness gate

\* C2: a handler that waited on the gate of a connection has written its
\* datagram upstream only if the creator has written the triggering one.
C2_FirstBeforeWaiters ==
    \A h \in H : SentLater(h) => SentFirst(client[h])

\* C3: a handler that found the entry gets past the gate, and writes, only
\* when the dial of its connection has succeeded and rConn is set.
C3_WaiterSeesSocket ==
    \A h \in H :
        (Loaded(h) /\ available[client[h]]) \/ SentLater(h)
            => /\ rConn[client[h]] # "nil"
               /\ pc[client[h]] \notin {"store", "dial"}
               /\ available[client[h]]

\* C3, reached: a handler that found a pending connection has waited and
\* written its datagram.
C3_WaiterWrote ==
    \E h \in H : SentLater(h) /\ rConn[client[h]] = "open"

\* The dial of the creator failed and the creator returned.
DialFailed(s) == Created(s) /\ pc[s] = "done" /\ rConn[s] = "nil"

\* C4: after a dial failure the packet is dropped, no hook fires, the failed
\* connection is not in the table, and the first handler started after the
\* failing one returned finds no entry (and so dials again).
C4_RetryAfterDialFailure ==
    /\ \A s \in H : DialFailed(s) =>
           /\ ~ConnectCalled(s)
           /\ clients[haddr[s]] # s
    /\ \A h \in H : nextAfterFail[h] /\ pc[h] \notin {"idle", "load"} =>
           ~Loaded(h)

\* C5: a handler blocked on the gate is eventually released, whether the
\* creator establishes the connection or its dial fails.
C5_WaitersReleased ==
    \A h \in H : (pc[h] = "wait") ~> (pc[h] # "wait" \/ panicked)

----------------------------------------------------------------------------
\* Janitor

\* The connection is the entry of its address.
InTable(s) == Created(s) /\ clients[haddr[s]] = s

\* The connection is established: the dial succeeded and the gate is open.
Established(s) == Created(s) /\ rConn[s] = "open" /\ available[s]

\* C6: while the forwarder runs, an established connection in the table
\* that no longer gets client traffic is eventually removed from the table.
C6_IdleEvicted ==
    \A s \in H :
        (InTable(s) /\ Established(s)) ~> (~InTable(s) \/ closed \/ panicked)

\* C6, reached: the janitor has removed an established connection while the
\* forwarder was running.
C6_Evicted ==
    \E s \in H :
        /\ reaped[s]
        /\ rConn[s] = "closed"
        /\ available[s]
        /\ clients[haddr[s]] = None
        /\ ~closed

\* C7: disconnectCallback is invoked at most once for a connection the
\* janitor removed, counting the janitor and the relay loop.
C7_DisconnectOnce ==
    \A s \in H : reaped[s] => disc[s] <= 1

\* C8: a Load never returns a connection the janitor has removed, so a
\* packet that arrives after the eviction is never written to the evicted
\* connection's socket: it finds no entry and creates a connection, or finds
\* a later one.
C8_FreshAfterEviction ==
    [][\A h \in H : HLoad(h) => (client'[h] = None \/ ~reaped[client'[h]])]_vars

\* C8, reached: after the janitor removed a connection of an address, a
\* later handler of the address has created a connection and dialled.
C8_NewSession ==
    \E s, h \in H :
        /\ s < h
        /\ haddr[s] = haddr[h]
        /\ reaped[s]
        /\ rConn[s] = "closed"
        /\ Created(h)
        /\ rConn[h] = "open"

\* C9: no connection whose socket is closed is reachable through the table.
C9_ClosedNotInTable ==
    \A a \in Addrs : clients[a] # None => rConn[clients[a]] # "closed"

----------------------------------------------------------------------------
\* Close

\* No relay loop (forward.go:148-166) is running.
RelayLoopsDone == \A h \in H : pc[h] \notin {"relay", "rdel"}

\* C10: once Close has run, the relay loops and the ingress loop terminate
\* and the table becomes empty.
C10_StopDrains ==
    (cpc = "done") ~>
        (panicked \/ (Keys = {} /\ runpc = "terminated" /\ RelayLoopsDone))

\* The janitor hit the nil rConn of a connection it removed (forward.go:98)
\* and the process is gone.
JanitorPanicked == panicked /\ jpc = "close" /\ rConn[jval] = "nil"

\* C11: Close, called in any state, runs to completion: f.closed is set, the
\* Range over the table returns and the listening socket is closed, unless
\* the janitor has brought the process down first.
C11_CloseCompletes ==
    (cpc # "idle") ~> (cpc = "done" \/ JanitorPanicked)

----------------------------------------------------------------------------
\* lastActive

\* C12: a handler that found the entry overwrites lastActive after its write
\* only when more than timeout/4 has passed since the stored value; a more
\* recent lastActive is left as it is.
C12_CoarseRefresh ==
    [][\A h \in H :
         HRefresh(h) /\ age' # age
             => age[clients[haddr[h]]] > Timeout \div 4]_vars

----------------------------------------------------------------------------
\* Janitor: what it removes

\* C13: the connection the janitor removes from the table and closes for a
\* key is the one its Range found idle under that key in the same round.
C13_ReapsOnlyCollected ==
    jpc = "close" => jval = jseen[keysToDelete[ji]]

----------------------------------------------------------------------------
\* Relay loop: read error

\* The step is the read-error path of the relay loop of h (forward.go:153-158).
ReadErrorStep(h) == HRelayError(h) \/ HRelayCleanup(h)

\* The entries, sockets, gates and goroutines of the addresses other than a
\* are the same before and after the step.
OtherAddrsUnchanged(a) ==
    /\ \A b \in Addrs \ {a} : clients'[b] = clients[b]
    /\ \A g \in H : haddr[g] # a =>
           /\ rConn'[g] = rConn[g]
           /\ available'[g] = available[g]
           /\ pc'[g] = pc[g]
           /\ disc'[g] = disc[g]

\* C14: a read error in the relay loop of a connection closes that socket,
\* removes the entry of its address, calls disconnectCallback for it and ends
\* the loop, and leaves the entries, sockets and relay loops of every other
\* address as they were.
C14_ReadErrorLocal ==
    [][\A h \in H :
         /\ ReadErrorStep(h) => OtherAddrsUnchanged(haddr[h])
         /\ HRelayError(h) => rConn'[h] = "closed"
         /\ HRelayCleanup(h) =>
                /\ clients'[haddr[h]] = None
                /\ disc'[h] = disc[h] + 1
                /\ pc'[h] = "done"]_vars

\* C14, reached: the relay loop of one address has ended on a read error
\* while the connection of another address is in the table, open and relaying.
C14_OtherStillRelaying ==
    \E h, g \in H :
        /\ haddr[h] # haddr[g]
        /\ pc[h] = "done"
        /\ rConn[h] = "closed"
        /\ disc[h] = 1
        /\ ~reaped[h]
        /\ pc[g] = "relay"
        /\ rConn[g] = "open"
        /\ clients[haddr[g]] = g

----------------------------------------------------------------------------
\* Write errors

\* The step is a WriteMsgUDP of handler h that returned an error: the first
\* write of the creator (forward.go:143), the write of a handler that found
\* the entry (forward.go:174) or the relay loop's write to the client
\* (forward.go:162).
FailedWrite(h) ==
    /\ HSendFirst(h) \/ HWaitSend(h) \/ HRelayReply(h)
    /\ ~panicked'
    /\ wlog' = "err"

\* C15: a failed write leaves the table, every socket and every gate as they
\* were, and the goroutine goes on: the creator enters or stays in its relay
\* loop, the handler that found the entry goes on to the refresh, and no
\* other goroutine moves.
C15_WriteErrorHarmless ==
    [][\A h \in H :
         FailedWrite(h) =>
             /\ UNCHANGED <<clients, rConn, available>>
             /\ pc'[h] = IF client[h] = h THEN "relay" ELSE "refresh"
             /\ \A g \in H \ {h} : pc'[g] = pc[g]]_vars

\* C15, reached: the latest write failed, and the connection is still in the
\* table, open, with its relay loop running and with a later datagram of the
\* client forwarded through it.
C15_StillEstablished ==
    /\ wlog = "err"
    /\ \E s, g \in H :
        /\ g # s
        /\ clients[haddr[s]] = s
        /\ rConn[s] = "open"
        /\ pc[s] = "relay"
        /\ client[g] = s
        /\ pc[g] = "refresh"

----------------------------------------------------------------------------
\* Ingress loop and slow dials

\* The traffic bound of the run leaves room for one more datagram, from b.
Room(b) ==
    /\ nextH < MaxHandlers
    /\ (nextH + 1) + Cardinality(Senders \cup {b}) <= limit

\* The handler g, if it is on the way from its Load to its first write, can
\* take its next step.
CanProceed(g) ==
    /\ pc[g] = "load" => ENABLED HLoad(g)
    /\ pc[g] = "store" => ENABLED HStore(g)
    /\ pc[g] = "dial" => ENABLED HDial(g)
    /\ pc[g] = "gate" => ENABLED HGate(g)
    /\ pc[g] = "first" => ENABLED HSendFirst(g)

\* C16: while the dial of one address is in progress, the ingress loop can
\* read a datagram of another address and start its handler, and a handler of
\* another address can look up, create, dial, open the gate and write without
\* waiting for that dial.
C16_DialDoesNotBlock ==
    \A h \in H :
        pc[h] = "dial" /\ ~panicked =>
            /\ \A b \in Addrs \ {haddr[h]} :
                   runpc = "reading" /\ listener = "open" /\ Room(b)
                       => ENABLED PacketArrive(b)
            /\ \A g \in H : haddr[g] # haddr[h] => CanProceed(g)

\* C16, reached: the dial of one address is still in progress, and a datagram
\* of another address, read after the dial began, has had its connection
\* established and has been written upstream.
C16_OtherForwarded ==
    \E h, g \in H :
        /\ h < g
        /\ haddr[h] # haddr[g]
        /\ pc[h] = "dial"
        /\ SentFirst(g)
        /\ rConn[g] = "open"

----------------------------------------------------------------------------
\* Relay loop: whose entry it deletes

\* C17: the entry a relay loop deletes when it ends on a read error is its own
\* connection: the loop of a connection the janitor has removed and closed
\* finds no entry to delete, and never deletes the connection stored under
\* the address since.
C17_DeletesOwnEntry ==
    [][\A h \in H :
         HRelayCleanup(h) /\ reaped[h] => clients[haddr[h]] = None]_vars

----------------------------------------------------------------------------
\* Sockets outside the table

\* The socket of the connection is open and the connection is not the entry
\* of its address.
OpenOutsideTable(s) == Created(s) /\ rConn[s] = "open" /\ ~InTable(s)

\* C18: while the forwarder runs, the open socket of a connection that is
\* not (or no longer) the entry of its address is eventually closed and its
\* relay loop ends.
C18_NoSocketLeak ==
    \A s \in H :
        OpenOutsideTable(s) ~>
            ((rConn[s] = "closed" /\ pc[s] = "done") \/ closed \/ panicked)

----------------------------------------------------------------------------
\* Close of a socket that was never opened

\* The janitor is at rConn.Close() (forward.go:98) with a connection whose
\* rConn is still nil.
JanitorAtUnopened == jpc = "close" /\ rConn[jval] = "nil"

\* The Range of Close is at rConn.Close() (forward.go:192) with an entry
\* whose rConn is still nil.
CloseAtUnopened ==
    /\ cpc = "range"
    /\ \E k \in ctodo : clients[k] # None /\ rConn[clients[k]] = "nil"

\* C19: neither the janitor nor Close ever calls Close on the rConn of a
\* connection whose dial has not completed: no call on a nil rConn has
\* brought the process down at one of these two places.
C19_NoCloseBeforeOpen ==
    panicked => ~(JanitorAtUnopened \/ CloseAtUnopened)

----------------------------------------------------------------------------
\* Hooks

RECURSIVE DiscUpTo(_, _)
\* disconnectCallback invocations made for the connections of address a that
\* the handlers 1..n created.
DiscUpTo(a, n) ==
    IF n = 0 THEN 0
    ELSE DiscUpTo(a, n - 1) + (IF haddr[n] = a THEN disc[n] ELSE 0)

\* Number of disconnectCallback(a) invocations so far (forward.go:103, 156).
NDisconnect(a) == DiscUpTo(a, MaxHandlers) + orphan[a]

\* Number of connectCallback(a) invocations so far (forward.go:141).
NConnect(a) == Cardinality({s \in H : haddr[s] = a /\ ConnectCalled(s)})

\* C20: at every point the number of disconnectCallback invocations for an
\* address is at most the number of connectCallback invocations for it.
C20_DisconnectsMatched ==
    \A a \in Addrs : NDisconnect(a) <= NConnect(a)

====
